---- MODULE Spec2Model ----
(***************************************************************************)
(* A model of the CRUD services of the repository: the shared bearer-token *)
(* authentication (shared_auth), the e-commerce cart and checkout          *)
(* (e_commerce) and the owner-gated resources (blog, movies, task_manager, *)
(* monitoring).  The database tables are the variables; every HTTP handler *)
(* is an action.  Handlers that the claims interleave (login's             *)
(* get_or_create, the checkout transaction) are split at their database    *)
(* round trips; the serialised specifications run one request at a time.   *)
(***************************************************************************)
EXTENDS Integers, Sequences, FiniteSets, TLC

\* ------------------------------------------------------------------ bounds
MaxProducts == 2      \* products ever created
MaxStock == 2         \* largest stock a product is created with
MaxPrice == 2         \* largest price (in minor units) a product is created with
MaxQty == 2           \* largest quantity of one add_to_cart, and of one cart line
MaxCartItems == 2     \* cart line ids ever allocated
MaxOrders == 1        \* orders ever committed, requests one at a time
MaxRaceProducts == 1  \* products ever created, requests interleaved
MaxRaceOrders == 2    \* orders ever committed or in flight, requests interleaved

\* ------------------------------------------------------------------ users
\* django.contrib.auth users are managed outside the repository.
Users == {"alice", "bob"}

\* The users with is_staff set.
Staff == {"bob"}

\* Bearer credentials a request can carry: UUID-shaped keys, a string that is
\* not UUID-shaped, and no Authorization header at all.
Keys == {"k1", "k2", "k3"}
Malformed == "not-a-uuid"
Missing == "no-header"
Credentials == Keys \cup {Malformed, Missing}

VARIABLES
    users,      \* auth_user rows
    tokens,     \* AuthToken rows: records [key, user]
    login,      \* in-flight login requests, per worker
    issued,     \* per user, the token keys login responses have returned
    products,   \* Product rows, by id (a sequence: products are never deleted)
    carts,      \* Cart rows: the users that have one
    cartItems,  \* CartItem rows: records [id, cart, product, quantity]
    nextItemId, \* CartItem id sequence
    orders,     \* Order rows with their OrderItem rows, by id
    txn,        \* per user, the local state of an in-flight create_order
    posts,      \* blog Post rows with their tags, by id
    movies,     \* Movie rows with their genres, by id
    tasks,      \* Task rows, by id
    servers,    \* monitoring Server rows, by id
    nextId,     \* the id sequences of the four tables above
    ratings,    \* movies Rating rows: records [movie, user, value]
    books,      \* library Book rows, by id: records [total_copies]
    rentals,    \* library Rental rows, by id: records [book, user, returned]
    renting,    \* in-flight rent_book requests, per worker
    nextBookId, \* Book id sequence
    nextRentalId, \* Rental id sequence
    students,   \* Student rows: their ids
    courses,    \* Course rows: their ids
    enrollments, \* Enrollment rows: records [id, student, course]
    grades,     \* Grade rows: records [id, student, course, value]
    enrolling,  \* in-flight enroll_student requests, per worker
    metrics,    \* monitoring Metric rows, in the order of their creation
    alertRules, \* AlertRule rows: records [server, metric_name, threshold]
    alertLogs,  \* AlertLog rows, in the order of their creation
    resp        \* the last HTTP response

authVars == <<users, tokens, login, issued>>
shopVars == <<products, carts, cartItems, nextItemId, orders, txn>>
ownedVars == <<posts, movies, tasks, servers, nextId>>
libraryVars == <<books, rentals, renting, nextBookId, nextRentalId>>
studentVars == <<students, courses, enrollments, grades, enrolling>>
monitorVars == <<metrics, alertRules, alertLogs>>
serviceVars == <<ratings, libraryVars, studentVars, monitorVars>>
vars == <<users, tokens, login, issued, products, carts, cartItems, nextItemId,
          orders, txn, posts, movies, tasks, servers, nextId, ratings, books,
          rentals, renting, nextBookId, nextRentalId, students, courses, enrollments, grades,
          enrolling, metrics, alertRules,
          alertLogs, resp>>

NoUser == "anonymous"
NoKey == "-"

\* An HTTP response: the endpoint, the authenticated user (NoUser when the gate
\* resolved none), the status code, the token key of a login response, the
\* outcome in words, and for create_order the number of order lines the handler
\* had built when it answered.  body holds the averages of a response that
\* carries some.
Answer(op, user, code, key, detail, built) ==
    [op |-> op, user |-> user, code |-> code, key |-> key, detail |-> detail,
     built |-> built, body |-> <<>>]

Response(op, user, code, key, detail) == Answer(op, user, code, key, detail, 0)

\* An HTTP response that carries a body.
Reply(op, user, code, detail, body) ==
    [Response(op, user, code, NoKey, detail) EXCEPT !.body = body]

\* ------------------------------------------------------------- shared_auth
MaxLogins == 2        \* login requests in flight at once
Workers == 1..MaxLogins
Passwords == {"right", "wrong"}

IdleLogin == [pc |-> "idle", user |-> NoUser]

StoredKeys == {t.key : t \in tokens}
TokensOf(u) == {t \in tokens : t.user = u}

\* uuid.uuid4: a key that no token has ever had.
FreshKeys == Keys \ (StoredKeys \cup UNION {issued[u] : u \in Users})

\* UUIDField.to_python: a string that does not parse as a UUID raises
\* ValidationError, which is not AuthToken.DoesNotExist.
IsUUID(c) == c \in Keys

\* BearerTokenAuth: the user a credential resolves to ("user"), None ("none":
\* the framework answers 401), or an exception that escapes authenticate
\* ("error": the framework answers 500).
Authenticate(c) ==
    IF c = Missing THEN [kind |-> "none", user |-> NoUser]
    ELSE IF ~IsUUID(c) THEN [kind |-> "error", user |-> NoUser]
    ELSE IF c \in StoredKeys
         THEN [kind |-> "user", user |-> (CHOOSE t \in tokens : t.key = c).user]
         ELSE [kind |-> "none", user |-> NoUser]

GateCode(c) == IF Authenticate(c).kind = "error" THEN 500 ELSE 401

\* Where auth=bearer_auth is registered, with the endpoints each registration
\* covers: the routers constructed with it and, in monitoring, whose router has
\* no auth, the endpoints decorated with it one by one.
Registrations ==
    [post_router |-> {"create_post", "update_post", "delete_post", "add_comment"},
     tags_router |-> {"create_tag"},
     product_router |-> {"create_product", "get_product", "list_products"},
     cart_router |-> {"get_user_cart", "add_to_cart", "remove_from_cart"},
     order_router |-> {"create_order", "list_orders", "update_order_status"},
     library_router |->
         {"create_book", "search_books", "get_book", "delete_book", "rent_book",
          "return_book", "list_my_rentals", "library.create_genre",
          "library.list_genres"},
     create_server |-> {"create_server"},
     list_servers |-> {"list_servers"},
     delete_server |-> {"delete_server"},
     get_latest_metrics |-> {"get_latest_metrics"},
     create_alert_rule |-> {"create_alert_rule"},
     list_alerts |-> {"list_alerts"},
     movies_router |->
         {"create_movie", "list_movies", "get_movie", "update_movie",
          "delete_movie"},
     genres_router |-> {"movies.create_genre", "movies.list_genres"},
     ratings_router |-> {"add_rating"},
     reviews_router |-> {"add_review", "list_reviews"},
     admin_router |->
         {"create_student", "list_students", "create_course", "list_courses",
          "delete_course"},
     enrollment_router |-> {"enroll_student"},
     grading_router |->
         {"add_grade", "get_student_course_average", "get_course_average"},
     task_router |->
         {"create_task", "list_tasks", "get_task", "update_task", "delete_task"}]

\* Every endpoint registered with auth=bearer_auth.
ProtectedOps == UNION {Registrations[r] : r \in DOMAIN Registrations}

\* The registration that puts the gate in front of a protected endpoint.
RegistrationOf(op) == CHOOSE r \in DOMAIN Registrations : op \in Registrations[r]

\* A request through a registration of the gate whose credential the gate does
\* not resolve to a user: the handler is not called.
Rejected(c, r) ==
    /\ Authenticate(c).kind # "user"
    /\ resp' = Response(r, NoUser, GateCode(c), NoKey,
                        IF Authenticate(c).kind = "error"
                        THEN "server error" ELSE "unauthorized")
    /\ UNCHANGED <<authVars, serviceVars, shopVars, ownedVars>>

\* A ForeignKey in place of the OneToOneField: no unique constraint on the owner.
NoUniqueOwner(u) == FALSE

\* The OneToOneField on AuthToken.user: inserting a second token for a user
\* violates its unique constraint.
TokenUniqueViolated(u) == TokensOf(u) # {}

\* A login that replaces the user's token by one with a new key.
LoginRotates(w, u) ==
    \E k \in FreshKeys :
        /\ tokens' = (tokens \ TokensOf(u)) \cup {[key |-> k, user |-> u]}
        /\ resp' = Response("login", u, 200, k, "existing")
        /\ issued' = [issued EXCEPT ![u] = @ \cup {k}]
        /\ UNCHANGED <<users, login>>

\* login, when get_or_create's SELECT finds the user's token.
LoginFound(w, u) ==
    LET t == CHOOSE t \in TokensOf(u) : TRUE IN
    /\ resp' = Response("login", u, 200, t.key, "existing")
    /\ issued' = [issued EXCEPT ![u] = @ \cup {t.key}]
    /\ UNCHANGED <<users, tokens, login>>

\* login up to get_or_create's SELECT.
LoginStart(w, name, pw) ==
    /\ login[w].pc = "idle"
    /\ IF ~(name \in users /\ pw = "right")
       THEN /\ resp' = Response("login", NoUser, 401, NoKey, "invalid credentials")
            /\ UNCHANGED authVars
       ELSE IF TokensOf(name) # {}
       THEN LoginFound(w, name)
       ELSE /\ login' = [login EXCEPT ![w] = [pc |-> "create", user |-> name]]
            /\ UNCHANGED <<users, tokens, issued, resp>>
    /\ UNCHANGED <<shopVars, ownedVars, serviceVars>>

\* login from get_or_create's INSERT on: an IntegrityError makes get_or_create
\* SELECT again and return the row that won, or re-raise when there is none.
LoginCreate(w) ==
    LET u == login[w].user IN
    /\ login[w].pc = "create"
    /\ login' = [login EXCEPT ![w] = IdleLogin]
    /\ IF u \notin users
       THEN /\ resp' = Response("login", u, 500, NoKey, "server error")
            /\ UNCHANGED <<users, tokens, issued>>
       ELSE IF TokenUniqueViolated(u)
       THEN LET t == CHOOSE t \in TokensOf(u) : TRUE IN
            /\ resp' = Response("login", u, 200, t.key, "existing after conflict")
            /\ issued' = [issued EXCEPT ![u] = @ \cup {t.key}]
            /\ UNCHANGED <<users, tokens>>
       ELSE \E k \in FreshKeys :
            /\ tokens' = tokens \cup {[key |-> k, user |-> u]}
            /\ resp' = Response("login", u, 200, k, "created")
            /\ issued' = [issued EXCEPT ![u] = @ \cup {k}]
            /\ UNCHANGED users
    /\ UNCHANGED <<shopVars, ownedVars, serviceVars>>

EmptyTable == [id \in {} |-> id]

\* The rows of a table other than those of the ids in gone.
Without(table, gone) == [id \in DOMAIN table \ gone |-> table[id]]

\* on_delete on the user foreign keys: deleting a user (done outside these
\* services) deletes the user's token, cart with its lines, orders, posts and
\* tasks, ratings and rentals (CASCADE) and clears added_by of the user's
\* movies and servers (SET_NULL).  Orders are identified by their position,
\* which a deletion shifts: no specification below deletes a user once orders
\* exist.
DeleteUser(u) ==
    /\ u \in users
    /\ users' = users \ {u}
    /\ tokens' = tokens \ TokensOf(u)
    /\ carts' = carts \ {u}
    /\ cartItems' = {ci \in cartItems : ci.cart # u}
    /\ orders' = SelectSeq(orders, LAMBDA o : o.user # u)
    /\ posts' = Without(posts, {id \in DOMAIN posts : posts[id].author = u})
    /\ tasks' = Without(tasks, {id \in DOMAIN tasks : tasks[id].user = u})
    /\ movies' = [id \in DOMAIN movies |->
                    IF movies[id].added_by = u
                    THEN [movies[id] EXCEPT !.added_by = NoUser] ELSE movies[id]]
    /\ servers' = [id \in DOMAIN servers |->
                     IF servers[id].added_by = u
                     THEN [servers[id] EXCEPT !.added_by = NoUser] ELSE servers[id]]
    /\ ratings' = {r \in ratings : r.user # u}
    /\ rentals' = Without(rentals, {id \in DOMAIN rentals : rentals[id].user = u})
    /\ UNCHANGED <<login, issued, products, nextItemId, txn, nextId, books, renting,
                   nextBookId, nextRentalId, studentVars, monitorVars, resp>>

\* -------------------------------------------------------------- e_commerce
ProductIds == 1..MaxProducts
ItemIds == 1..MaxCartItems

IdleTxn == [pc |-> "idle", items |-> <<>>, i |-> 0, total |-> 0,
            lines |-> <<>>, writes |-> <<>>]

\* The orderings of a set of rows: a queryset without order_by has no
\* defined order.
Orderings(S) ==
    {s \in [1..Cardinality(S) -> S] : \A a, b \in 1..Cardinality(S) : s[a] = s[b] => a = b}

ItemsOf(u) == {ci \in cartItems : ci.cart = u}

InFlight == {u \in Users : txn[u].pc # "idle"}

\* create_product
CreateProduct(u, price, stock, active) ==
    /\ products' = Append(products,
                          [price |-> price, stock |-> stock, is_active |-> active])
    /\ resp' = Response("create_product", u, 201, NoKey, "created")
    /\ UNCHANGED <<authVars, serviceVars, ownedVars, carts, cartItems, nextItemId, orders, txn>>

\* list_products: a read, nothing is stored.
ListProducts(u) ==
    /\ resp' = Response("list_products", u, 200, NoKey, "ok")
    /\ UNCHANGED <<authVars, serviceVars, shopVars, ownedVars>>

\* get_user_cart
GetUserCart(u) ==
    /\ carts' = carts \cup {u}
    /\ resp' = Response("get_user_cart", u, 200, NoKey, "ok")
    /\ UNCHANGED <<authVars, serviceVars, ownedVars, products, cartItems, nextItemId, orders, txn>>

\* A lookup that never finds the cart's line for the product.
NoLineFor(u, pid) == {}

\* CartItem.objects.get_or_create(cart=cart, product=product): the lines of
\* u's cart for the product.
LinesFor(u, pid) == {ci \in ItemsOf(u) : ci.product = pid}

\* add_to_cart
AddToCart(u, pid, q) ==
    LET existing == LinesFor(u, pid) IN
    /\ carts' = carts \cup {u}
    /\ IF ~(pid <= Len(products) /\ products[pid].is_active)
       THEN /\ resp' = Response("add_to_cart", u, 404, NoKey, "not found")
            /\ UNCHANGED <<cartItems, nextItemId>>
       ELSE IF q <= 0
       THEN /\ resp' = Response("add_to_cart", u, 400, NoKey, "quantity must be positive")
            /\ UNCHANGED <<cartItems, nextItemId>>
       ELSE IF existing = {}
       THEN /\ cartItems' = cartItems \cup
                   {[id |-> nextItemId, cart |-> u, product |-> pid, quantity |-> q]}
            /\ nextItemId' = nextItemId + 1
            /\ resp' = Response("add_to_cart", u, 200, NoKey, "created")
       ELSE LET item == CHOOSE ci \in existing : TRUE IN
            /\ cartItems' = (cartItems \ {item}) \cup
                   {[item EXCEPT !.quantity = @ + q]}
            /\ resp' = Response("add_to_cart", u, 200, NoKey, "incremented")
            /\ UNCHANGED nextItemId
    /\ UNCHANGED <<authVars, serviceVars, ownedVars, products, orders, txn>>

\* remove_from_cart
RemoveFromCart(u, id) ==
    LET found == {ci \in ItemsOf(u) : ci.id = id} IN
    /\ IF u \notin carts \/ found = {}
       THEN /\ resp' = Response("remove_from_cart", u, 404, NoKey, "not found")
            /\ UNCHANGED cartItems
       ELSE /\ cartItems' = cartItems \ found
            /\ resp' = Response("remove_from_cart", u, 204, NoKey, "deleted")
    /\ UNCHANGED <<authVars, serviceVars, ownedVars, products, carts, nextItemId, orders, txn>>

\* cart.items.select_related('product'): each cart line with its own copy of
\* the product row as it is when the queryset is evaluated.
Snapshot(ci) ==
    [id |-> ci.id, product |-> ci.product, quantity |-> ci.quantity,
     stock |-> products[ci.product].stock, price |-> products[ci.product].price]

\* create_order up to Order.objects.create: the cart lookup, the evaluation of
\* the cart lines and the empty-cart check.
CheckoutBegin(u) ==
    /\ txn[u].pc = "idle"
    /\ IF u \notin carts
       THEN /\ resp' = Response("create_order", u, 404, NoKey, "not found")
            /\ UNCHANGED txn
       ELSE IF ItemsOf(u) = {}
       THEN /\ resp' = Response("create_order", u, 400, NoKey, "cart is empty")
            /\ UNCHANGED txn
       ELSE /\ \E s \in Orderings(ItemsOf(u)) :
                  txn' = [txn EXCEPT ![u] =
                             [pc |-> "loop",
                              items |-> [k \in 1..Len(s) |-> Snapshot(s[k])],
                              i |-> 1, total |-> 0, lines |-> <<>>, writes |-> <<>>]]
            /\ UNCHANGED resp
    /\ UNCHANGED <<authVars, serviceVars, ownedVars, products, carts, cartItems, nextItemId, orders>>

\* The last stock saved for each product inside the transaction.
ApplyWrites(prods, writes) ==
    [p \in DOMAIN prods |->
        LET ws == {k \in 1..Len(writes) : writes[k].product = p} IN
        IF ws = {} THEN prods[p]
        ELSE [prods[p] EXCEPT
                 !.stock = writes[CHOOSE k \in ws : \A j \in ws : j <= k].stock]]

\* Without the transaction the product rows saved before the exception stay.
KeepStockWrites(u) == products' = ApplyWrites(products, txn[u].writes)

\* @transaction.atomic, on an exception: the product rows saved so far are
\* rolled back.
RollbackStock(u) == products' = products

\* Without the transaction the order header inserted before the loop stays.
KeepOrderHeader(u) ==
    orders' = Append(orders, [user |-> u, status |-> "PENDING",
                              total_amount |-> 0, items |-> <<>>])

\* @transaction.atomic, on an exception: the order header inserted before the
\* loop is rolled back.
RollbackOrder(u) == orders' = orders

\* A line total that forgets the quantity.
LineTotalUnitOnly(price, quantity) == price

\* product.price * item.quantity
LineTotal(price, quantity) == price * quantity

\* One pass of the loop over cart_items: the stock check, the order line, the
\* running total and product.save() with the decremented stock.
CheckoutLoop(u) ==
    LET t == txn[u]
        item == t.items[t.i] IN
    /\ t.pc = "loop"
    /\ IF item.stock < item.quantity
       THEN /\ RollbackStock(u)
            /\ RollbackOrder(u)
            /\ txn' = [txn EXCEPT ![u] = IdleTxn]
            /\ resp' = Answer("create_order", u, 400, NoKey, "insufficient stock",
                              Len(t.lines))
       ELSE /\ txn' = [txn EXCEPT ![u] =
                          [t EXCEPT
                              !.lines = Append(@, [product |-> item.product,
                                                   quantity |-> item.quantity,
                                                   price_at_purchase |-> item.price]),
                              !.total = @ + LineTotal(item.price, item.quantity),
                              !.writes = Append(@, [product |-> item.product,
                                                    stock |-> item.stock - item.quantity]),
                              !.i = @ + 1,
                              !.pc = IF t.i = Len(t.items) THEN "commit" ELSE "loop"]]
            /\ UNCHANGED <<products, orders, resp>>
    /\ UNCHANGED <<authVars, serviceVars, ownedVars, carts, cartItems, nextItemId>>

\* create_order after the loop: bulk_create of the order lines, order.save()
\* with the total, cart_items.delete() (a DELETE of every line the cart holds
\* now) and the commit.
CheckoutCommit(u) ==
    LET t == txn[u] IN
    /\ t.pc = "commit"
    /\ products' = ApplyWrites(products, t.writes)
    /\ orders' = Append(orders, [user |-> u, status |-> "PENDING",
                                 total_amount |-> t.total, items |-> t.lines])
    /\ cartItems' = cartItems \ ItemsOf(u)
    /\ txn' = [txn EXCEPT ![u] = IdleTxn]
    /\ resp' = Answer("create_order", u, 201, NoKey, "created", Len(t.lines))
    /\ UNCHANGED <<authVars, serviceVars, ownedVars, carts, nextItemId>>

\* Order.STATUS_CHOICES, and a status string that is not one of them.
Statuses == {"PENDING", "SHIPPED", "DELIVERED", "CANCELED"}
Bogus == "REFUNDED"

\* get_object_or_404(Order, id=order_id)
FindOrder(id) == id \in DOMAIN orders

\* A lookup that leaves out the user filter.
FindPendingOrderOfAnyone(id, u) ==
    id \in DOMAIN orders /\ orders[id].status = "PENDING"

\* get_object_or_404(Order, id=order_id, user=user, status='PENDING')
FindOwnPendingOrder(id, u) ==
    /\ id \in DOMAIN orders
    /\ orders[id].user = u
    /\ orders[id].status = "PENDING"

\* A save that also writes the total anew, from no lines.
SaveStatusAndTotal(u, id, status) ==
    /\ orders' = [orders EXCEPT ![id].status = status, ![id].total_amount = 0]
    /\ resp' = Response("update_order_status", u, 200, NoKey, "updated")

\* order.status = payload.status; order.save()
SaveStatus(u, id, status) ==
    /\ orders' = [orders EXCEPT ![id].status = status]
    /\ resp' = Response("update_order_status", u, 200, NoKey, "updated")

\* update_order_status.  The last branch returns the HttpError instead of
\* raising it: the handler ends there, and the returned object is not an
\* OrderOut, which the response serialisation answers with a server error.
UpdateOrderStatus(u, id, status) ==
    /\ IF status \notin Statuses
       THEN /\ resp' = Response("update_order_status", u, 403, NoKey, "invalid status")
            /\ UNCHANGED orders
       ELSE IF u \in Staff
       THEN IF ~FindOrder(id)
            THEN /\ resp' = Response("update_order_status", u, 404, NoKey, "not found")
                 /\ UNCHANGED orders
            ELSE SaveStatus(u, id, status)
       ELSE IF status = "CANCELED"
       THEN IF ~FindOwnPendingOrder(id, u)
            THEN /\ resp' = Response("update_order_status", u, 404, NoKey, "not found")
                 /\ UNCHANGED orders
            ELSE SaveStatus(u, id, status)
       ELSE /\ resp' = Response("update_order_status", u, 500, NoKey, "server error")
            /\ UNCHANGED orders
    /\ UNCHANGED <<authVars, serviceVars, ownedVars, products, carts, cartItems,
                   nextItemId, txn>>

\* ------------------------------------ blog, movies, task_manager, monitoring
MaxResources == 2     \* posts, movies, tasks and servers ever created, together
ResourceIds == 1..MaxResources
Texts == {"a", "b"}
\* The Tag rows and the Genre rows, created beforehand.
TagIds == {1}
GenreIds == {1}

Insert(table, id, row) == [k \in DOMAIN table \cup {id} |-> IF k = id THEN row ELSE table[k]]

NotFound(op, u) == Response(op, u, 404, NoKey, "not found")

\* A lookup that leaves out the author filter.
FindPostOfAnyone(id, u) == id \in DOMAIN posts

\* get_object_or_404(Post, id=post_id, author=user)
FindPost(id, u) == id \in DOMAIN posts /\ posts[id].author = u

\* get_object_or_404(Movie, id=movie_id, added_by=user)
FindMovie(id, u) == id \in DOMAIN movies /\ movies[id].added_by = u

\* Task.due_date is nullable: a task without a due date, and the due dates.
NoDate == 0
MaxDueDate == 2       \* latest due date of a task
DueDates == {NoDate} \cup 1..MaxDueDate

\* Task.STATUS_CHOICES
TaskStatuses == {"TODO", "IN_PROGRESS", "DONE"}

\* get_object_or_404(Task, id=task_id, user=user)
FindTask(id, u) == id \in DOMAIN tasks /\ tasks[id].user = u

\* get_object_or_404(Server, id=server_id, added_by=get_current_user(request))
FindServer(id, u) == id \in DOMAIN servers /\ servers[id].added_by = u

\* create_post
CreatePost(u, title, tag_ids) ==
    /\ posts' = Insert(posts, nextId.post,
                       [author |-> u, title |-> title, tags |-> tag_ids])
    /\ nextId' = [nextId EXCEPT !.post = @ + 1]
    /\ resp' = Response("create_post", u, 201, NoKey, "created")
    /\ UNCHANGED <<authVars, serviceVars, shopVars, movies, tasks, servers>>

\* update_post: PostIn has no optional field, so every field is set.
UpdatePost(u, id, title, tag_ids) ==
    /\ IF ~FindPost(id, u)
       THEN /\ resp' = NotFound("update_post", u)
            /\ UNCHANGED posts
       ELSE /\ posts' = [posts EXCEPT ![id] =
                            [author |-> @.author, title |-> title, tags |-> tag_ids]]
            /\ resp' = Response("update_post", u, 200, NoKey, "updated")
    /\ UNCHANGED <<authVars, serviceVars, shopVars, movies, tasks, servers, nextId>>

\* delete_post
DeletePost(u, id) ==
    /\ IF ~FindPost(id, u)
       THEN /\ resp' = NotFound("delete_post", u)
            /\ UNCHANGED posts
       ELSE /\ posts' = Without(posts, {id})
            /\ resp' = Response("delete_post", u, 204, NoKey, "deleted")
    /\ UNCHANGED <<authVars, serviceVars, shopVars, movies, tasks, servers, nextId>>

\* create_movie
CreateMovie(u, title, genre_ids) ==
    /\ movies' = Insert(movies, nextId.movie,
                        [added_by |-> u, title |-> title, genres |-> genre_ids])
    /\ nextId' = [nextId EXCEPT !.movie = @ + 1]
    /\ resp' = Response("create_movie", u, 201, NoKey, "created")
    /\ UNCHANGED <<authVars, serviceVars, shopVars, posts, tasks, servers>>

\* update_movie: title and genre_ids are required fields of MovieIn.
UpdateMovie(u, id, title, genre_ids) ==
    /\ IF ~FindMovie(id, u)
       THEN /\ resp' = NotFound("update_movie", u)
            /\ UNCHANGED movies
       ELSE /\ movies' = [movies EXCEPT ![id] =
                             [added_by |-> @.added_by, title |-> title,
                              genres |-> genre_ids]]
            /\ resp' = Response("update_movie", u, 200, NoKey, "updated")
    /\ UNCHANGED <<authVars, serviceVars, shopVars, posts, tasks, servers, nextId>>

\* delete_movie
DeleteMovie(u, id) ==
    /\ IF ~FindMovie(id, u)
       THEN /\ resp' = NotFound("delete_movie", u)
            /\ UNCHANGED <<movies, ratings>>
       ELSE /\ movies' = Without(movies, {id})
            /\ ratings' = {r \in ratings : r.movie # id}
            /\ resp' = Response("delete_movie", u, 204, NoKey, "deleted")
    /\ UNCHANGED <<authVars, libraryVars, studentVars, monitorVars, shopVars, posts, tasks,
                   servers, nextId>>

\* create_task
CreateTask(u, title, due_date) ==
    /\ tasks' = Insert(tasks, nextId.task,
                       [user |-> u, title |-> title, status |-> "TODO",
                        created_at |-> nextId.task, due_date |-> due_date])
    /\ nextId' = [nextId EXCEPT !.task = @ + 1]
    /\ resp' = Response("create_task", u, 201, NoKey, "created")
    /\ UNCHANGED <<authVars, serviceVars, shopVars, posts, movies, servers>>

\* The names list_tasks offers to order_by. The list in the code has no comma
\* between 'due_date' and '-created_at', and Python joins the two literals.
ValidSorts == {"created_at", "due_date-created_at", "-due_date"}

\* The spellings of sort_by that order_by resolves to a field of Task.
SortOrders == {"created_at", "-created_at", "due_date", "-due_date"}

\* The values of sort_by: not given (""), the four documented ones, and the
\* joined literal.
SortBys == {""} \cup SortOrders \cup ValidSorts

SortField(sort_by) ==
    IF sort_by \in {"created_at", "-created_at"} THEN "created_at" ELSE "due_date"

Descending(sort_by) == sort_by \in {"-created_at", "-due_date"}

\* order_by(sort_by) over the task ids s[1..n]: every two rows that both have
\* the field stand in its order; where a NULL due_date sorts, and the order of
\* rows with equal values, is the database's choice.
OrderedBy(s, sort_by) ==
    \A i, j \in 1..Len(s) :
        LET a == tasks[s[i]][SortField(sort_by)]
            b == tasks[s[j]][SortField(sort_by)] IN
        (i < j /\ a # NoDate /\ b # NoDate) =>
            IF Descending(sort_by) THEN a >= b ELSE a <= b

\* The values of the status parameter: not given (""), and two spellings.
StatusFilters == {"", "todo", "DONE"}

\* str.upper() on the values of the status parameter
Upper(status) == IF status = "todo" THEN "TODO" ELSE status

\* TaskOut, as far as the order of the list shows in it
TaskOut(id) ==
    [id |-> id, status |-> tasks[id].status, created_at |-> tasks[id].created_at,
     due_date |-> tasks[id].due_date]

\* list_tasks: the requester's tasks, filtered by status when one is given,
\* and ordered when sort_by is one of valid_sorts; a queryset without
\* order_by has no defined order (Task has no Meta.ordering), and order_by with
\* a name that is no field of Task raises FieldError.
ListTasks(u, status, sort_by) ==
    LET own == {id \in DOMAIN tasks : tasks[id].user = u}
        queryset == IF status # "" THEN {id \in own : tasks[id].status = Upper(status)}
                    ELSE own IN
    /\ IF sort_by \in ValidSorts /\ sort_by \notin SortOrders
       THEN resp' = Response("list_tasks", u, 500, NoKey, "server error")
       ELSE \E s \in Orderings(queryset) :
               /\ sort_by \in ValidSorts => OrderedBy(s, sort_by)
               /\ resp' = Reply("list_tasks", u, 200, "ok",
                                [k \in 1..Len(s) |-> TaskOut(s[k])])
    /\ UNCHANGED <<authVars, serviceVars, shopVars, ownedVars>>

\* update_task: payload.dict(exclude_unset=True) holds the fields the request
\* gave; each is set on the task.
UpdateTask(u, id, payload) ==
    /\ IF ~FindTask(id, u)
       THEN /\ resp' = NotFound("update_task", u)
            /\ UNCHANGED tasks
       ELSE /\ tasks' = [tasks EXCEPT ![id] =
                            [f \in DOMAIN @ |->
                                IF f \in DOMAIN payload THEN payload[f] ELSE @[f]]]
            /\ resp' = Response("update_task", u, 200, NoKey, "updated")
    /\ UNCHANGED <<authVars, serviceVars, shopVars, posts, movies, servers, nextId>>

\* delete_task
DeleteTask(u, id) ==
    /\ IF ~FindTask(id, u)
       THEN /\ resp' = NotFound("delete_task", u)
            /\ UNCHANGED tasks
       ELSE /\ tasks' = Without(tasks, {id})
            /\ resp' = Response("delete_task", u, 204, NoKey, "deleted")
    /\ UNCHANGED <<authVars, serviceVars, shopVars, posts, movies, servers, nextId>>

\* create_server: Server.name and Server.ip_address are unique, a second
\* server of a name or of an address is an IntegrityError.
CreateServer(u, name, ip_address, is_active) ==
    /\ IF \E id \in DOMAIN servers :
              servers[id].name = name \/ servers[id].ip_address = ip_address
       THEN /\ resp' = Response("create_server", u, 500, NoKey, "server error")
            /\ UNCHANGED <<servers, nextId>>
       ELSE /\ servers' = Insert(servers, nextId.server,
                                 [added_by |-> u, name |-> name,
                                  ip_address |-> ip_address,
                                  is_active |-> is_active])
            /\ nextId' = [nextId EXCEPT !.server = @ + 1]
            /\ resp' = Response("create_server", u, 201, NoKey, "created")
    /\ UNCHANGED <<authVars, serviceVars, shopVars, posts, movies, tasks>>

\* delete_server: the server's metrics, alert rules and alert log rows go
\* with it (CASCADE).
DeleteServer(u, id) ==
    /\ IF ~FindServer(id, u)
       THEN /\ resp' = NotFound("delete_server", u)
            /\ UNCHANGED <<servers, monitorVars>>
       ELSE /\ servers' = Without(servers, {id})
            /\ metrics' = SelectSeq(metrics, LAMBDA m : m.server # id)
            /\ alertRules' = {r \in alertRules : r.server # id}
            /\ alertLogs' = SelectSeq(alertLogs, LAMBDA a : a.server # id)
            /\ resp' = Response("delete_server", u, 204, NoKey, "deleted")
    /\ UNCHANGED <<authVars, ratings, libraryVars, studentVars, shopVars, posts,
                   movies, tasks, nextId>>

\* --------------------------------------------------------------- monitoring
MaxLoad == 2          \* largest metric value and largest threshold
MaxMetrics == 1       \* Metric rows ever stored
MaxRules == 2         \* AlertRule rows at once
MaxServers == 2       \* servers ever created

\* None in an optional field of MetricIn; the metric values are percentages.
NoValue == -1

\* AlertRule.METRIC_CHOICES
MetricNames == {"CPU_LOAD", "MEMORY_USAGE", "DISK_USAGE"}

\* The MetricIn payloads: status, and the three optional values.
MetricIns ==
    [status : BOOLEAN, cpu_load : {NoValue} \cup 1..MaxLoad,
     memory_usage : {NoValue, MaxLoad}, disk_usage : {NoValue}]

\* metric_map.get(rule.metric_name)
MetricValue(payload, metric_name) ==
    IF metric_name = "CPU_LOAD" THEN payload.cpu_load
    ELSE IF metric_name = "MEMORY_USAGE" THEN payload.memory_usage
    ELSE IF metric_name = "DISK_USAGE" THEN payload.disk_usage
    ELSE NoValue

\* The messages of the AlertLog rows.
ServerIsDown == <<"Server is DOWN!">>
ExceededThreshold(rule, value) == <<rule.metric_name, value, rule.threshold>>

\* AlertRule.objects.filter(server=server), and of these the rules whose
\* metric the payload carries with a value >= rule.threshold.
RulesOf(server) == {r \in alertRules : r.server = server}

Alerting(server, payload) ==
    {r \in RulesOf(server) :
        /\ MetricValue(payload, r.metric_name) # NoValue
        /\ MetricValue(payload, r.metric_name) >= r.threshold}

\* check_for_alerts: the AlertLog rows it creates, the rules taken in the
\* order the queryset returned them.
CheckForAlerts(server, payload, rules) ==
    LET alerts ==
            (IF ~payload.status THEN <<ServerIsDown>> ELSE <<>>) \o
            [k \in 1..Len(rules) |->
                ExceededThreshold(rules[k], MetricValue(payload, rules[k].metric_name))]
    IN [k \in 1..Len(alerts) |->
           [server |-> server, message |-> alerts[k], is_resolved |-> FALSE]]

\* get_object_or_404(Server, ip_address=ip_address, is_active=True)
ActiveServers(ip_address) ==
    {id \in DOMAIN servers :
        servers[id].ip_address = ip_address /\ servers[id].is_active}

\* submit_metrics: registered without auth, request.auth is not set.
SubmitMetrics(ip_address, payload) ==
    /\ IF ActiveServers(ip_address) = {}
       THEN /\ resp' = NotFound("submit_metrics", NoUser)
            /\ UNCHANGED <<metrics, alertLogs>>
       ELSE LET server == CHOOSE id \in ActiveServers(ip_address) : TRUE IN
            /\ metrics' = Append(metrics,
                   [server |-> server, status |-> payload.status,
                    cpu_load |-> payload.cpu_load,
                    memory_usage |-> payload.memory_usage,
                    disk_usage |-> payload.disk_usage])
            /\ \E rules \in Orderings(Alerting(server, payload)) :
                  alertLogs' = alertLogs \o CheckForAlerts(server, payload, rules)
            /\ resp' = Response("submit_metrics", NoUser, 201, NoKey, "created")
    /\ UNCHANGED <<authVars, shopVars, ownedVars, ratings, libraryVars, studentVars,
                   alertRules>>

\* create_alert_rule: the server is looked up by id alone; update_or_create on
\* (server, metric_name).
CreateAlertRule(u, server_id, metric_name, threshold) ==
    /\ IF server_id \notin DOMAIN servers
       THEN /\ resp' = NotFound("create_alert_rule", u)
            /\ UNCHANGED alertRules
       ELSE /\ alertRules' =
                   {r \in alertRules :
                       ~(r.server = server_id /\ r.metric_name = metric_name)} \cup
                   {[server |-> server_id, metric_name |-> metric_name,
                     threshold |-> threshold]}
            /\ resp' = Response("create_alert_rule", u, 201, NoKey, "created")
    /\ UNCHANGED <<authVars, shopVars, ownedVars, ratings, libraryVars, studentVars,
                   metrics, alertLogs>>

\* ----------------------------------------------------------------- library
MaxBooks == 2         \* books ever created
MaxCopies == 2        \* largest total_copies a book is created with
MaxRentals == 2       \* rentals ever created or in flight
MaxRenters == 2       \* rent_book requests in flight at once
BookIds == 1..MaxBooks
RentalIds == 1..MaxRentals
RentWorkers == 1..MaxRenters

IdleRent == [pc |-> "idle", user |-> NoUser, book |-> 0]

\* create_book
CreateBook(u, total_copies) ==
    /\ books' = Insert(books, nextBookId, [total_copies |-> total_copies])
    /\ nextBookId' = nextBookId + 1
    /\ resp' = Response("create_book", u, 201, NoKey, "created")
    /\ UNCHANGED <<authVars, shopVars, ownedVars, ratings, studentVars, monitorVars, rentals,
                   renting, nextRentalId>>

\* book.rentals.filter(return_date__isnull=True)
ActiveRentals(b) == {id \in DOMAIN rentals : rentals[id].book = b /\ ~rentals[id].returned}

\* Book.available_copies
AvailableCopies(b) == books[b].total_copies - Cardinality(ActiveRentals(b))

\* A check that lets a request through when no copy is left.
NoCopiesBelowZero(b) == AvailableCopies(b) < 0

\* book.available_copies <= 0
NoCopies(b) == AvailableCopies(b) <= 0

\* book.rentals.filter(user=user, return_date__isnull=True).exists()
AlreadyRented(b, u) == \E id \in ActiveRentals(b) : rentals[id].user = u

\* rent_book up to Rental.objects.create: the book lookup and the two checks.
\* The first check raises a tuple, which is a TypeError: a server error.
RentBegin(w, u, b) ==
    /\ renting[w].pc = "idle"
    /\ IF b \notin DOMAIN books
       THEN /\ resp' = NotFound("rent_book", u)
            /\ UNCHANGED renting
       ELSE IF AlreadyRented(b, u)
       THEN /\ resp' = Response("rent_book", u, 500, NoKey, "server error")
            /\ UNCHANGED renting
       ELSE IF NoCopies(b)
       THEN /\ resp' = Response("rent_book", u, 400, NoKey, "no copies available")
            /\ UNCHANGED renting
       ELSE /\ renting' = [renting EXCEPT ![w] =
                              [pc |-> "create", user |-> u, book |-> b]]
            /\ UNCHANGED resp
    /\ UNCHANGED <<authVars, shopVars, ownedVars, ratings, studentVars, monitorVars, books,
                   rentals, nextBookId, nextRentalId>>

\* rent_book from Rental.objects.create on: the insert and the commit.
RentCreate(w) ==
    LET r == renting[w] IN
    /\ r.pc = "create"
    /\ rentals' = Insert(rentals, nextRentalId,
                         [book |-> r.book, user |-> r.user, returned |-> FALSE])
    /\ nextRentalId' = nextRentalId + 1
    /\ renting' = [renting EXCEPT ![w] = IdleRent]
    /\ resp' = Response("rent_book", r.user, 201, NoKey, "created")
    /\ UNCHANGED <<authVars, shopVars, ownedVars, ratings, studentVars, monitorVars, books,
                   nextBookId>>

\* A lookup that leaves out the user filter.
FindActiveRentalOfAnyone(id, u) == id \in DOMAIN rentals /\ ~rentals[id].returned

\* A lookup that leaves out the return_date filter.
FindOwnRental(id, u) == id \in DOMAIN rentals /\ rentals[id].user = u

\* get_object_or_404(Rental, id=rental_id, user=user, return_date__isnull=True)
FindActiveRental(id, u) ==
    /\ id \in DOMAIN rentals
    /\ rentals[id].user = u
    /\ ~rentals[id].returned

\* A save that closes every rental of the requester.
CloseRentalsOfUser(id, u) ==
    rentals' = [k \in DOMAIN rentals |->
                   IF rentals[k].user = u
                   THEN [rentals[k] EXCEPT !.returned = TRUE] ELSE rentals[k]]

\* rental.return_date = datetime.now(); rental.save()
CloseRental(id, u) == rentals' = [rentals EXCEPT ![id].returned = TRUE]

\* return_book
ReturnBook(u, id) ==
    /\ IF ~FindActiveRental(id, u)
       THEN /\ resp' = NotFound("return_book", u)
            /\ UNCHANGED rentals
       ELSE /\ CloseRental(id, u)
            /\ resp' = Response("return_book", u, 200, NoKey, "returned")
    /\ UNCHANGED <<authVars, shopVars, ownedVars, ratings, studentVars, monitorVars, books,
                   renting, nextBookId, nextRentalId>>

\* ----------------------------------------------------- averages (Django Avg)
\* An aggregate's value: Null, or a number kept exact as <<sum, count>>.
Null == <<>>
Zero == <<0, 1>>

RECURSIVE SumValues(_)
SumValues(rows) ==
    IF rows = {} THEN 0
    ELSE LET r == CHOOSE x \in rows : TRUE IN r.value + SumValues(rows \ {r})

\* Avg('value') over a set of rows: NULL over no rows.
Avg(rows) == IF rows = {} THEN Null ELSE <<SumValues(rows), Cardinality(rows)>>

\* average or 0.0: None and a zero average are both falsy.
OrZero(a) == IF a = Null \/ a[1] = 0 THEN Zero ELSE a

\* ------------------------------------------------------------------ movies
MaxRatingValue == 2   \* largest value of a rating
RatingValues == 1..MaxRatingValue

RatingsOf(m) == {r \in ratings : r.movie = m}

\* Movie.average_rating
AverageRating(m) == OrZero(Avg(RatingsOf(m)))

\* add_rating: update_or_create on (movie, user)
AddRating(u, m, value) ==
    /\ IF m \notin DOMAIN movies
       THEN /\ resp' = NotFound("add_rating", u)
            /\ UNCHANGED ratings
       ELSE /\ ratings' = {r \in ratings : ~(r.movie = m /\ r.user = u)} \cup
                              {[movie |-> m, user |-> u, value |-> value]}
            /\ resp' = Response("add_rating", u, 200, NoKey, "rated")
    /\ UNCHANGED <<authVars, shopVars, ownedVars, libraryVars, studentVars, monitorVars>>

\* get_movie: MovieOut carries the model's average_rating.
GetMovie(u, m) ==
    /\ IF m \notin DOMAIN movies
       THEN resp' = NotFound("get_movie", u)
       ELSE resp' = Reply("get_movie", u, 200, "ok", AverageRating(m))
    /\ UNCHANGED <<authVars, shopVars, ownedVars, serviceVars>>

\* The values of min_rating: None, or a number as the fraction <<n, 1>>.
MinRatings == {Null} \cup {<<n, 1>> : n \in 0..MaxRatingValue}

\* The values of genre_id: a genre's id, or 0; "if genre_id:" takes 0 as it
\* takes None.
GenreFilters == {0} \cup GenreIds

\* avg_rating__gte=min_rating: a NULL average compares as unknown, and the
\* row is filtered out.
AvgGte(a, min_rating) == a # Null /\ a[1] * min_rating[2] >= min_rating[1] * a[2]

\* The texts in alphabetical order.
Alphabet == <<"a", "b">>
Rank(t) == CHOOSE k \in 1..Len(Alphabet) : Alphabet[k] = t

\* order_by('-avg_rating', 'title'): row x may come before row y. Where a
\* NULL average sorts among the others is the database's choice.
MayPrecede(x, y) ==
    LET a == Avg(RatingsOf(x))
        b == Avg(RatingsOf(y)) IN
    IF a = Null /\ b = Null THEN Rank(movies[x].title) <= Rank(movies[y].title)
    ELSE IF a = Null \/ b = Null THEN TRUE
    ELSE \/ a[1] * b[2] > b[1] * a[2]
         \/ a[1] * b[2] = b[1] * a[2] /\ Rank(movies[x].title) <= Rank(movies[y].title)

\* list_movies with genre_id and min_rating; release_year and search are not
\* given. Each MovieOut carries the model's average_rating.
ListMovies(u, genre_id, min_rating) ==
    LET byGenre == {m \in DOMAIN movies :
                       genre_id = 0 \/ genre_id \in movies[m].genres}
        queryset == {m \in byGenre :
                        min_rating = Null \/ AvgGte(Avg(RatingsOf(m)), min_rating)} IN
    /\ \E s \in Orderings(queryset) :
          /\ \A i, j \in 1..Len(s) : i < j => MayPrecede(s[i], s[j])
          /\ resp' = Reply("list_movies", u, 200, "ok",
                           [k \in 1..Len(s) |->
                               [id |-> s[k], average_rating |-> AverageRating(s[k])]])
    /\ UNCHANGED <<authVars, shopVars, ownedVars, serviceVars>>

\* ---------------------------------------------------------------- students
MaxStudents == 1      \* students ever created
MaxCourses == 2       \* courses ever created
MaxGrades == 2        \* grades ever recorded
MaxEnrollers == 2     \* enroll_student requests in flight at once
StudentIds == 1..MaxStudents
CourseIds == 1..MaxCourses
EnrollWorkers == 1..MaxEnrollers
\* Grade.score is an IntegerField; its validators do not run on create().
Scores == {0, 100}

IdleEnroll == [pc |-> "idle", user |-> NoUser, student |-> 0, course |-> 0]

\* create_student
CreateStudent(u) ==
    /\ students' = students \cup {Cardinality(students) + 1}
    /\ resp' = Response("create_student", u, 201, NoKey, "created")
    /\ UNCHANGED <<authVars, shopVars, ownedVars, ratings, libraryVars, monitorVars, courses,
                   enrollments, grades, enrolling>>

\* create_course
CreateCourse(u) ==
    /\ courses' = courses \cup {Cardinality(courses) + 1}
    /\ resp' = Response("create_course", u, 201, NoKey, "created")
    /\ UNCHANGED <<authVars, shopVars, ownedVars, ratings, libraryVars, monitorVars, students,
                   enrollments, grades, enrolling>>

\* Enrollment.objects.filter(student=s, course=c)
EnrollmentsOf(s, c) == {e \in enrollments : e.student = s /\ e.course = c}

Enrolled(s, c) == EnrollmentsOf(s, c) # {}

\* A table without unique_together: an insert never conflicts.
NoUniqueTogether(s, c) == FALSE

\* Enrollment.Meta.unique_together = ('student', 'course'): inserting a second
\* row for the pair violates the constraint.
EnrollmentUniqueViolated(s, c) == Enrolled(s, c)

AlreadyEnrolled(op, u, detail) == Response(op, u, 409, NoKey, detail)

\* enroll_student up to the INSERT of get_or_create: the student and course
\* lookups and get_or_create's SELECT.
EnrollStart(w, u, s, c) ==
    /\ enrolling[w].pc = "idle"
    /\ IF s \notin students \/ c \notin courses
       THEN /\ resp' = NotFound("enroll_student", u)
            /\ UNCHANGED enrolling
       ELSE IF Enrolled(s, c)
       THEN /\ resp' = AlreadyEnrolled("enroll_student", u, "already enrolled")
            /\ UNCHANGED enrolling
       ELSE /\ enrolling' = [enrolling EXCEPT ![w] =
                                [pc |-> "create", user |-> u, student |-> s,
                                 course |-> c]]
            /\ UNCHANGED resp
    /\ UNCHANGED <<authVars, shopVars, ownedVars, ratings, libraryVars, monitorVars, students,
                   courses, enrollments, grades>>

\* get_or_create's INSERT: on an IntegrityError it reads the row again and
\* reports created = False.
EnrollCreate(w) ==
    LET e == enrolling[w] IN
    /\ e.pc = "create"
    /\ IF EnrollmentUniqueViolated(e.student, e.course)
       THEN /\ resp' = AlreadyEnrolled("enroll_student", e.user,
                                      "already enrolled after conflict")
            /\ UNCHANGED enrollments
       ELSE /\ enrollments' = enrollments \cup
                                  {[id |-> Cardinality(enrollments) + 1,
                                    student |-> e.student, course |-> e.course]}
            /\ resp' = Response("enroll_student", e.user, 201, NoKey, "created")
    /\ enrolling' = [enrolling EXCEPT ![w] = IdleEnroll]
    /\ UNCHANGED <<authVars, shopVars, ownedVars, ratings, libraryVars, monitorVars, students,
                   courses, grades>>

\* add_grade
AddGrade(u, s, c, score) ==
    /\ IF ~Enrolled(s, c)
       THEN /\ resp' = NotFound("add_grade", u)
            /\ UNCHANGED grades
       ELSE /\ grades' = grades \cup
                             {[id |-> Cardinality(grades) + 1, student |-> s,
                               course |-> c, value |-> score]}
            /\ resp' = Response("add_grade", u, 201, NoKey, "created")
    /\ UNCHANGED <<authVars, shopVars, ownedVars, ratings, libraryVars, monitorVars, students,
                   courses, enrollments, enrolling>>

\* enrollment.grades
GradesOf(s, c) == {g \in grades : g.student = s /\ g.course = c}

\* Grade.objects.filter(enrollment__course=course)
GradesIn(c) == {g \in grades : g.course = c}

\* get_student_course_average
GetStudentCourseAverage(u, s, c) ==
    /\ IF ~Enrolled(s, c)
       THEN resp' = NotFound("get_student_course_average", u)
       ELSE resp' = Reply("get_student_course_average", u, 200, "ok",
                          OrZero(Avg(GradesOf(s, c))))
    /\ UNCHANGED <<authVars, shopVars, ownedVars, serviceVars>>

\* get_course_average
GetCourseAverage(u, c) ==
    /\ IF c \notin courses
       THEN resp' = NotFound("get_course_average", u)
       ELSE resp' = Reply("get_course_average", u, 200, "ok",
                          OrZero(Avg(GradesIn(c))))
    /\ UNCHANGED <<authVars, shopVars, ownedVars, serviceVars>>

\* list_courses: each course annotated with Avg('enrollments__grades__score'),
\* which CourseOut passes on as it is.
ListCourses(u) ==
    /\ resp' = Reply("list_courses", u, 200, "ok",
                     [c \in courses |-> Avg(GradesIn(c))])
    /\ UNCHANGED <<authVars, shopVars, ownedVars, serviceVars>>

\* ---------------------------------------------------------- specifications
Gate(c) == Authenticate(c).kind = "user"
UserOf(c) == Authenticate(c).user

InitEmpty ==
    /\ login = [w \in Workers |-> IdleLogin]
    /\ products = <<>>
    /\ carts = {}
    /\ cartItems = {}
    /\ nextItemId = 1
    /\ orders = <<>>
    /\ txn = [u \in Users |-> IdleTxn]
    /\ posts = EmptyTable
    /\ movies = EmptyTable
    /\ tasks = EmptyTable
    /\ servers = EmptyTable
    /\ nextId = [post |-> 1, movie |-> 1, task |-> 1, server |-> 1]
    /\ ratings = {}
    /\ books = EmptyTable
    /\ rentals = EmptyTable
    /\ renting = [w \in RentWorkers |-> IdleRent]
    /\ nextBookId = 1
    /\ nextRentalId = 1
    /\ students = {}
    /\ courses = {}
    /\ enrollments = {}
    /\ grades = {}
    /\ enrolling = [w \in EnrollWorkers |-> IdleEnroll]
    /\ metrics = <<>>
    /\ alertRules = {}
    /\ alertLogs = <<>>
    /\ resp = Response("none", NoUser, 0, NoKey, "none")

\* The database with the users created and nobody logged in yet.
InitAuth ==
    /\ users = Users
    /\ tokens = {}
    /\ issued = [u \in Users |-> {}]
    /\ InitEmpty

\* The database after each user has logged in once.
InitShop ==
    /\ users = Users
    /\ tokens = {[key |-> "k1", user |-> "alice"], [key |-> "k2", user |-> "bob"]}
    /\ issued = [u \in Users |-> {t.key : t \in TokensOf(u)}]
    /\ InitEmpty

\* The bounds of the model, as conditions on the request about to run.
CanCreateProduct(n) == Len(products) < n
CanCheckout(n) == Len(orders) + Cardinality(InFlight) < n
CanAdd(u, pid, q) ==
    LET existing == {ci \in ItemsOf(u) : ci.product = pid} IN
    IF existing = {} THEN nextItemId <= MaxCartItems
    ELSE \A ci \in existing : ci.quantity + q <= MaxQty

\* The e-commerce requests of authenticated users, one at a time: a request
\* starts only when no other is in flight.  An inactive product's price and
\* stock are never read, so one choice of them is drawn.
NextShopSeq ==
    \/ \E c \in Credentials, price \in 1..MaxPrice, stock \in 0..MaxStock,
          active \in BOOLEAN :
          /\ InFlight = {} /\ CanCreateProduct(MaxProducts)
          /\ active \/ (price = 1 /\ stock = 0)
          /\ Gate(c) /\ CreateProduct(UserOf(c), price, stock, active)
    \/ \E c \in Credentials : InFlight = {} /\ Gate(c) /\ GetUserCart(UserOf(c))
    \/ \E c \in Credentials, pid \in ProductIds, q \in 0..MaxQty :
          /\ InFlight = {} /\ Gate(c) /\ CanAdd(UserOf(c), pid, q)
          /\ AddToCart(UserOf(c), pid, q)
    \/ \E c \in Credentials, id \in ItemIds :
          InFlight = {} /\ Gate(c) /\ RemoveFromCart(UserOf(c), id)
    \/ \E c \in Credentials :
          /\ InFlight = {} /\ Gate(c) /\ CanCheckout(MaxOrders)
          /\ CheckoutBegin(UserOf(c))
    \/ \E u \in Users : CheckoutLoop(u)
    \/ \E u \in Users : CheckoutCommit(u)

SpecShopSeq == InitShop /\ [][NextShopSeq]_vars

\* The same requests interleaved at the database round trips of create_order,
\* over a catalogue of active products of one price.
NextShop ==
    \/ \E c \in Credentials, stock \in 0..MaxStock :
          /\ CanCreateProduct(MaxRaceProducts)
          /\ Gate(c) /\ CreateProduct(UserOf(c), 1, stock, TRUE)
    \/ \E c \in Credentials : Gate(c) /\ GetUserCart(UserOf(c))
    \/ \E c \in Credentials, pid \in ProductIds, q \in 0..MaxQty :
          Gate(c) /\ CanAdd(UserOf(c), pid, q) /\ AddToCart(UserOf(c), pid, q)
    \/ \E c \in Credentials, id \in ItemIds : Gate(c) /\ RemoveFromCart(UserOf(c), id)
    \/ \E c \in Credentials :
          Gate(c) /\ CanCheckout(MaxRaceOrders) /\ CheckoutBegin(UserOf(c))
    \/ \E u \in Users : CheckoutLoop(u)
    \/ \E u \in Users : CheckoutCommit(u)

SpecShop == InitShop /\ [][NextShop]_vars

\* Logins interleaved at get_or_create's two statements, user deletion, and
\* requests to the protected endpoints with every kind of credential; of the
\* handlers behind the gate, list_products stands for all.
NextAuth ==
    \/ \E w \in Workers, name \in Users, pw \in Passwords : LoginStart(w, name, pw)
    \/ \E w \in Workers : LoginCreate(w)
    \/ \E u \in Users : DeleteUser(u)
    \/ \E c \in Credentials, r \in DOMAIN Registrations : Rejected(c, r)
    \/ \E c \in Credentials : Gate(c) /\ ListProducts(UserOf(c))

SpecAuth == InitAuth /\ [][NextAuth]_vars

\* The bound on the rows of the owned tables, as a condition on a create.
CanCreate ==
    nextId.post + nextId.movie + nextId.task + nextId.server - 4 < MaxResources

TaskPayloads == {EmptyTable} \cup {[f \in {"title"} |-> t] : t \in Texts}

\* The requests of authenticated users to the owner-gated resources.
NextOwned ==
    \/ \E c \in Credentials, t \in Texts, tg \in SUBSET TagIds :
          Gate(c) /\ CanCreate /\ CreatePost(UserOf(c), t, tg)
    \/ \E c \in Credentials, id \in ResourceIds, t \in Texts, tg \in SUBSET TagIds :
          Gate(c) /\ UpdatePost(UserOf(c), id, t, tg)
    \/ \E c \in Credentials, id \in ResourceIds : Gate(c) /\ DeletePost(UserOf(c), id)
    \/ \E c \in Credentials, t \in Texts, g \in SUBSET GenreIds :
          Gate(c) /\ CanCreate /\ CreateMovie(UserOf(c), t, g)
    \/ \E c \in Credentials, id \in ResourceIds, t \in Texts, g \in SUBSET GenreIds :
          Gate(c) /\ UpdateMovie(UserOf(c), id, t, g)
    \/ \E c \in Credentials, id \in ResourceIds : Gate(c) /\ DeleteMovie(UserOf(c), id)
    \/ \E c \in Credentials, t \in Texts : Gate(c) /\ CanCreate /\ CreateTask(UserOf(c), t, NoDate)
    \/ \E c \in Credentials, id \in ResourceIds, pl \in TaskPayloads :
          Gate(c) /\ UpdateTask(UserOf(c), id, pl)
    \/ \E c \in Credentials, id \in ResourceIds : Gate(c) /\ DeleteTask(UserOf(c), id)
    \/ \E c \in Credentials, n \in Texts : Gate(c) /\ CanCreate /\ CreateServer(UserOf(c), n, n, TRUE)
    \/ \E c \in Credentials, id \in ResourceIds : Gate(c) /\ DeleteServer(UserOf(c), id)

SpecOwned == InitShop /\ [][NextOwned]_vars

MaxTasks == 2         \* tasks ever created

\* The requests of authenticated users to the task manager.
NextTasks ==
    \/ \E c \in Credentials, d \in DueDates :
          Gate(c) /\ nextId.task <= MaxTasks /\ CreateTask(UserOf(c), "a", d)
    \/ \E c \in Credentials, id \in 1..MaxTasks, st \in TaskStatuses :
          Gate(c) /\ UpdateTask(UserOf(c), id, [f \in {"status"} |-> st])
    \/ \E c \in Credentials, id \in 1..MaxTasks : Gate(c) /\ DeleteTask(UserOf(c), id)
    \/ \E c \in Credentials, st \in StatusFilters, sort_by \in SortBys :
          Gate(c) /\ ListTasks(UserOf(c), st, sort_by)

SpecTasks == InitShop /\ [][NextTasks]_vars

\* The requests to the monitoring service: those of authenticated users, and
\* submit_metrics, which every client reaches.
NextMonitoring ==
    \/ \E c \in Credentials, n \in Texts, active \in BOOLEAN :
          /\ Gate(c) /\ nextId.server <= MaxServers
          /\ CreateServer(UserOf(c), n, n, active)
    \/ \E c \in Credentials, id \in 1..MaxServers : Gate(c) /\ DeleteServer(UserOf(c), id)
    \/ \E c \in Credentials, id \in 1..MaxServers,
          name \in {"CPU_LOAD", "MEMORY_USAGE"}, threshold \in 1..MaxLoad :
          /\ Gate(c)
          /\ Cardinality({r \in alertRules :
                             ~(r.server = id /\ r.metric_name = name)}) < MaxRules
          /\ CreateAlertRule(UserOf(c), id, name, threshold)
    \/ \E ip \in Texts, payload \in MetricIns :
          Len(metrics) < MaxMetrics /\ SubmitMetrics(ip, payload)

SpecMonitoring == InitShop /\ [][NextMonitoring]_vars

MaxStatusProducts == 2  \* products ever created, orders with status updates
MaxStatusOrders == 2    \* orders ever committed, orders with status updates

\* The e-commerce requests of authenticated users with the status updates of
\* the orders, one at a time.  Products are created active and fully stocked,
\* and are added to a cart one unit at a time.
NextOrders ==
    \/ \E c \in Credentials, price \in 1..MaxPrice :
          /\ InFlight = {} /\ CanCreateProduct(MaxStatusProducts)
          /\ Gate(c) /\ CreateProduct(UserOf(c), price, MaxStock, TRUE)
    \/ \E c \in Credentials, pid \in 1..MaxStatusProducts :
          /\ InFlight = {} /\ Gate(c) /\ CanAdd(UserOf(c), pid, 1)
          /\ AddToCart(UserOf(c), pid, 1)
    \/ \E c \in Credentials, id \in ItemIds :
          InFlight = {} /\ Gate(c) /\ RemoveFromCart(UserOf(c), id)
    \/ \E c \in Credentials :
          /\ InFlight = {} /\ Gate(c) /\ CanCheckout(MaxStatusOrders)
          /\ CheckoutBegin(UserOf(c))
    \/ \E u \in Users : CheckoutLoop(u)
    \/ \E u \in Users : CheckoutCommit(u)
    \/ \E c \in Credentials, id \in 1..MaxStatusOrders,
          status \in Statuses \cup {Bogus} :
          InFlight = {} /\ Gate(c) /\ UpdateOrderStatus(UserOf(c), id, status)

SpecOrders == InitShop /\ [][NextOrders]_vars

Renting == {w \in RentWorkers : renting[w].pc # "idle"}
CanRent == (nextRentalId - 1) + Cardinality(Renting) < MaxRentals

\* The library requests of authenticated users: rent_book requests interleave
\* with each other and with every other request.
NextLibrary ==
    \/ \E c \in Credentials, n \in 0..MaxCopies :
          Gate(c) /\ nextBookId <= MaxBooks /\ CreateBook(UserOf(c), n)
    \/ \E w \in RentWorkers, c \in Credentials, b \in BookIds :
          Gate(c) /\ CanRent /\ RentBegin(w, UserOf(c), b)
    \/ \E w \in RentWorkers : RentCreate(w)
    \/ \E c \in Credentials, id \in RentalIds : Gate(c) /\ ReturnBook(UserOf(c), id)

SpecLibrary == InitShop /\ [][NextLibrary]_vars

\* The requests of authenticated users to the students service and to the
\* ratings of the movies: enroll_student requests interleave.
NextSchool ==
    \/ \E c \in Credentials :
          Gate(c) /\ Cardinality(students) < MaxStudents /\ CreateStudent(UserOf(c))
    \/ \E c \in Credentials :
          Gate(c) /\ Cardinality(courses) < MaxCourses /\ CreateCourse(UserOf(c))
    \/ \E w \in EnrollWorkers, c \in Credentials, s \in StudentIds, k \in CourseIds :
          Gate(c) /\ EnrollStart(w, UserOf(c), s, k)
    \/ \E w \in EnrollWorkers : EnrollCreate(w)
    \/ \E c \in Credentials, s \in StudentIds, k \in CourseIds, score \in Scores :
          /\ Gate(c) /\ Cardinality(grades) < MaxGrades
          /\ AddGrade(UserOf(c), s, k, score)
    \/ \E c \in Credentials, s \in StudentIds, k \in CourseIds :
          Gate(c) /\ GetStudentCourseAverage(UserOf(c), s, k)
    \/ \E c \in Credentials, k \in CourseIds : Gate(c) /\ GetCourseAverage(UserOf(c), k)
    \/ \E c \in Credentials : Gate(c) /\ ListCourses(UserOf(c))

SpecSchool == InitShop /\ [][NextSchool]_vars

MaxRatedMovies == 2   \* movies ever created, movies with ratings

\* The requests of authenticated users to the movies and their ratings.
NextRatings ==
    \/ \E c \in Credentials, t \in Texts, g \in SUBSET GenreIds :
          /\ Gate(c) /\ nextId.movie <= MaxRatedMovies
          /\ CreateMovie(UserOf(c), t, g)
    \/ \E c \in Credentials, id \in 1..MaxRatedMovies : Gate(c) /\ DeleteMovie(UserOf(c), id)
    \/ \E c \in Credentials, id \in 1..MaxRatedMovies, v \in RatingValues :
          Gate(c) /\ AddRating(UserOf(c), id, v)
    \/ \E c \in Credentials, id \in 1..MaxRatedMovies : Gate(c) /\ GetMovie(UserOf(c), id)
    \/ \E c \in Credentials, g \in GenreFilters, m \in MinRatings :
          Gate(c) /\ ListMovies(UserOf(c), g, m)

SpecRatings == InitShop /\ [][NextRatings]_vars

\* ------------------------------------------------------------------ claims
\* create_order answers u in this step.
Returns(u) == txn[u].pc # "idle" /\ txn'[u].pc = "idle"

\* Every line of u's cart is covered by its product's stock.
Sufficient(u) ==
    /\ ItemsOf(u) # {}
    /\ \A ci \in ItemsOf(u) : products[ci.product].stock >= ci.quantity

RECURSIVE SumQuantity(_)
SumQuantity(S) ==
    IF S = {} THEN 0
    ELSE LET ci == CHOOSE x \in S : TRUE IN ci.quantity + SumQuantity(S \ {ci})

RECURSIVE OrderTotal(_)
OrderTotal(lines) ==
    IF lines = <<>> THEN 0
    ELSE Head(lines).price_at_purchase * Head(lines).quantity + OrderTotal(Tail(lines))

\* C1: a checkout of a cart of N >= 1 lines that the stock covers commits
\* exactly one new PENDING order of the user with one order line per cart line
\* (same product and quantity, the product's price), a total that is the sum of
\* price_at_purchase * quantity, every stock lowered by the quantity bought, and
\* an empty cart.
C1_CheckoutSuccess ==
    [][\A u \in Users :
        (Returns(u) /\ Sufficient(u)) =>
            /\ resp' = Answer("create_order", u, 201, NoKey, "created",
                              Cardinality(ItemsOf(u)))
            /\ Len(orders') = Len(orders) + 1
            /\ SubSeq(orders', 1, Len(orders)) = orders
            /\ LET o == orders'[Len(orders')] IN
                /\ o.user = u
                /\ o.status = "PENDING"
                /\ Len(o.items) = Cardinality(ItemsOf(u))
                /\ \A ci \in ItemsOf(u) : \E k \in 1..Len(o.items) :
                      o.items[k] = [product |-> ci.product, quantity |-> ci.quantity,
                                    price_at_purchase |-> products[ci.product].price]
                /\ o.total_amount = OrderTotal(o.items)
            /\ DOMAIN products' = DOMAIN products
            /\ \A p \in DOMAIN products :
                  products'[p] = [products[p] EXCEPT !.stock =
                      @ - SumQuantity({ci \in ItemsOf(u) : ci.product = p})]
            /\ {ci \in cartItems' : ci.cart = u} = {}
    ]_vars

\* A checkout of two lines, one of them of quantity 2, has been answered 201.
C1_Witness ==
    /\ resp.op = "create_order" /\ resp.code = 201 /\ resp.built = 2
    /\ \E k \in 1..2 : orders[Len(orders)].items[k].quantity = 2

\* C2: a checkout of a cart with a line that asks for more than its product's
\* stock fails with the insufficient-stock error and leaves every product's
\* stock as it was, the products of the lines that passed the check included.
C2_StockRollback ==
    [][\A u \in Users :
        (Returns(u) /\ ItemsOf(u) # {} /\ ~Sufficient(u)) =>
            /\ resp'.op = "create_order" /\ resp'.user = u
            /\ resp'.code = 400 /\ resp'.detail = "insufficient stock"
            /\ products' = products
    ]_vars

\* A checkout failed on a line after an earlier line had passed the check and
\* its product had been saved with the lower stock.
C2_Witness ==
    /\ resp.op = "create_order" /\ resp.code = 400
    /\ resp.detail = "insufficient stock" /\ resp.built >= 1

\* C3: when create_order fails on an insufficient-stock line no order of that
\* call remains and the user's cart holds the lines it held before.
C3_NoPartialOrder ==
    [][\A u \in Users :
        (/\ Returns(u)
         /\ resp'.op = "create_order" /\ resp'.user = u
         /\ resp'.detail = "insufficient stock") =>
            /\ orders' = orders
            /\ {ci \in cartItems' : ci.cart = u} = ItemsOf(u)
    ]_vars

\* A checkout of a two-line cart failed and the cart still holds both lines.
C3_Witness ==
    /\ resp.op = "create_order" /\ resp.detail = "insufficient stock"
    /\ resp.user \in Users
    /\ Cardinality(ItemsOf(resp.user)) = 2
    /\ orders = <<>>

\* C4: create_order by a user with no cart lines, with or without a cart
\* record, fails with the empty-cart error (400), creates no order and changes
\* no stock.
C4_EmptyCartRejected ==
    [][\A u \in Users :
        (CheckoutBegin(u) /\ ItemsOf(u) = {}) =>
            /\ resp' = Response("create_order", u, 400, NoKey, "cart is empty")
            /\ orders' = orders
            /\ products' = products
    ]_vars

\* u's create_order is in flight on a cart of one line: quantity 1 of product
\* p, read when p's stock was 1.
InRace(u, p) ==
    /\ txn[u].pc # "idle"
    /\ Len(txn[u].items) = 1
    /\ txn[u].items[1].product = p
    /\ txn[u].items[1].quantity = 1
    /\ txn[u].items[1].stock = 1

\* C5: of two interleaved checkouts by different users, each of quantity 1 of
\* a product whose stock is 1, exactly one succeeds: once v's has committed
\* (its order is the last one, the stock is 0), u's fails with the
\* insufficient-stock error, creates no order and the stock stays 0.
C5_ExactlyOneCheckoutWins ==
    [][\A u, v \in Users, p \in ProductIds :
        (/\ u # v
         /\ InRace(u, p)
         /\ Returns(u)
         /\ p <= Len(products) /\ products[p].stock = 0
         /\ Len(orders) >= 1
         /\ orders[Len(orders)].user = v
         /\ Len(orders[Len(orders)].items) = 1
         /\ orders[Len(orders)].items[1].product = p
         /\ orders[Len(orders)].items[1].quantity = 1) =>
            /\ resp' = Answer("create_order", u, 400, NoKey, "insufficient stock", 0)
            /\ orders' = orders
            /\ products'[p].stock = 0
    ]_vars

\* A login of u is answered in this step.
LoginAnswers(u) ==
    \E w \in Workers :
        \/ \E pw \in Passwords : LoginStart(w, u, pw) /\ login'[w].pc = "idle"
        \/ login[w].user = u /\ LoginCreate(w)

\* C6: all successful logins of a user return the same token key, whatever
\* happens in between, and a login of a user who has a token creates no token.
C6_TokenIdempotent ==
    /\ [](\A u \in Users : Cardinality(issued[u]) <= 1)
    /\ [][\A u \in Users :
            (tokens' # tokens /\ TokensOf(u) # {}) => ~LoginAnswers(u)]_vars

\* A login found the user's token and returned the key the first login returned.
C6_Witness ==
    /\ resp.op = "login" /\ resp.code = 200 /\ resp.detail = "existing"
    /\ issued[resp.user] = {resp.key}

\* C7: there is at most one token per user in every state, and a token (its
\* key and its owner) stays as created until its owner is deleted.
C7_OneTokenPerUser ==
    /\ [](\A u \in Users : Cardinality(TokensOf(u)) <= 1)
    /\ [][\A t \in tokens : t \in tokens' \/ t.user \notin users']_vars

\* Two logins of one user raced: the one that lost the INSERT returned the
\* winner's token, the user's only one.
C7_Witness ==
    /\ resp.op = "login" /\ resp.detail = "existing after conflict"
    /\ TokensOf(resp.user) = {[key |-> resp.key, user |-> resp.user]}

\* C8: a request to a protected endpoint whose credential is not the key of a
\* stored token, a malformed one included, is never authenticated, is rejected
\* as unauthenticated (401), and changes no stored state.
C8_UnknownTokenRejected ==
    /\ [](\A c \in Credentials \ StoredKeys : ~Gate(c))
    /\ [][\A c \in Credentials \ StoredKeys, op \in ProtectedOps :
            Rejected(c, RegistrationOf(op)) =>
                /\ resp' = Response(RegistrationOf(op), NoUser, 401, NoKey,
                                    "unauthorized")
                /\ UNCHANGED <<authVars, serviceVars, shopVars, ownedVars>>]_vars

\* C9: no credential, a malformed credential and a well-formed unknown one get
\* the same outcome from the gate.
C9_UniformAuthFailure ==
    \A c1, c2 \in Credentials \ StoredKeys :
        /\ Authenticate(c1) = Authenticate(c2)
        /\ GateCode(c1) = GateCode(c2)

\* u is not the owner of a row id of the table, or there is no such row.
NotOwner(table, owner, id, u) == id \notin DOMAIN table \/ table[id][owner] # u

\* The step answers a request op of u.
Asked(op, u) == resp'.op = op /\ resp'.user = u

\* The request op of u is answered 404 in this step and no owned table changes.
AnsweredNotFound(op, u) ==
    /\ resp' = NotFound(op, u)
    /\ UNCHANGED <<posts, movies, tasks, servers>>

\* C10: an update or delete of a post, movie, task or server by a user who is
\* not its owner changes no resource and no association and is answered as the
\* same request is for an id that does not exist: 404, not found.
C10_NotOwnerIsNotFound ==
    [][\A u \in Users, id \in ResourceIds :
        /\ (/\ Asked("update_post", u) /\ NotOwner(posts, "author", id, u)
            /\ \E t \in Texts, tg \in SUBSET TagIds : UpdatePost(u, id, t, tg))
              => AnsweredNotFound("update_post", u)
        /\ (Asked("delete_post", u) /\ NotOwner(posts, "author", id, u) /\ DeletePost(u, id))
              => AnsweredNotFound("delete_post", u)
        /\ (/\ Asked("update_movie", u) /\ NotOwner(movies, "added_by", id, u)
            /\ \E t \in Texts, g \in SUBSET GenreIds : UpdateMovie(u, id, t, g))
              => AnsweredNotFound("update_movie", u)
        /\ (Asked("delete_movie", u) /\ NotOwner(movies, "added_by", id, u) /\ DeleteMovie(u, id))
              => AnsweredNotFound("delete_movie", u)
        /\ (/\ Asked("update_task", u) /\ NotOwner(tasks, "user", id, u)
            /\ \E pl \in TaskPayloads : UpdateTask(u, id, pl))
              => AnsweredNotFound("update_task", u)
        /\ (Asked("delete_task", u) /\ NotOwner(tasks, "user", id, u) /\ DeleteTask(u, id))
              => AnsweredNotFound("delete_task", u)
        /\ (Asked("delete_server", u) /\ NotOwner(servers, "added_by", id, u) /\ DeleteServer(u, id))
              => AnsweredNotFound("delete_server", u)
    ]_vars

\* A user's update of a post was answered 404 when every id a request can name
\* was a post of the other user.
C10_Witness ==
    /\ resp.op = "update_post" /\ resp.code = 404
    /\ \A id \in ResourceIds : id \in DOMAIN posts /\ posts[id].author # resp.user

\* The policy lets u give the order id the status s.
Allowed(u, id, s) ==
    /\ id \in DOMAIN orders
    /\ s \in Statuses
    /\ \/ u \in Staff
       \/ orders[id].user = u /\ orders[id].status = "PENDING" /\ s = "CANCELED"

CartLines(u, pid) == {ci \in cartItems : ci.cart = u /\ ci.product = pid}

\* C18: a cart never holds two lines for one product, and a successful
\* add_to_cart of quantity q for a product the cart already has a line for
\* raises that line's quantity by q and adds no line.
C18_OneLinePerProduct ==
    /\ [](\A u \in Users, pid \in ProductIds : Cardinality(CartLines(u, pid)) <= 1)
    /\ [][\A u \in Users, pid \in ProductIds, q \in 0..MaxQty :
            (/\ Asked("add_to_cart", u) /\ resp'.code = 200
             /\ CartLines(u, pid) # {}
             /\ AddToCart(u, pid, q)) =>
                \E ci \in CartLines(u, pid) :
                    cartItems' = (cartItems \ {ci}) \cup
                                     {[ci EXCEPT !.quantity = ci.quantity + q]}
       ]_vars

\* add_to_cart has just raised the quantity of a line the cart had.
C18_Witness ==
    /\ resp.op = "add_to_cart" /\ resp.detail = "incremented"
    /\ \E ci \in cartItems : ci.cart = resp.user /\ ci.quantity = MaxQty

\* C19: no step changes the lines, the total or the owner of a committed
\* order, and no step removes a committed order: only its status changes.
C19_SnapshotImmutable ==
    [][\A id \in DOMAIN orders :
        /\ id \in DOMAIN orders'
        /\ orders'[id].items = orders[id].items
        /\ orders'[id].total_amount = orders[id].total_amount
        /\ orders'[id].user = orders[id].user
    ]_vars

\* A product has just been created after two checkouts and a status update
\* of the first order.
C19_Witness ==
    /\ resp.op = "create_product"
    /\ Len(orders) = 2
    /\ orders[1].status # "PENDING"
    /\ orders[1].items # <<>>

\* The rentals of book b in the table rts that have no return_date.
OpenRentals(rts, b) == {id \in DOMAIN rts : rts[id].book = b /\ ~rts[id].returned}

\* total_copies minus the number of open rentals, for the tables bks and rts.
Available(bks, rts, b) == bks[b].total_copies - Cardinality(OpenRentals(rts, b))

C13_ReturnFreesOneCopy ==
    [][\A u \in Users, id \in RentalIds :
        (Asked("return_book", u) /\ resp'.code = 200 /\ ReturnBook(u, id)) =>
            \A b \in DOMAIN books :
                Available(books', rentals', b) =
                    Available(books, rentals, b) +
                        (IF b = rentals[id].book THEN 1 ELSE 0)
    ]_vars

\* A user has just returned one book while still holding an open rental of
\* another.
C13_Witness ==
    /\ resp.op = "return_book" /\ resp.code = 200
    /\ \E i, j \in DOMAIN rentals :
          /\ rentals[i].user = resp.user /\ rentals[i].returned
          /\ rentals[j].user = resp.user /\ ~rentals[j].returned
          /\ rentals[i].book # rentals[j].book

\* C14: no user holds two open rentals of one book.
C14_OneOpenRentalPerUserAndBook ==
    \A u \in Users, b \in BookIds :
        Cardinality({id \in OpenRentals(rentals, b) : rentals[id].user = u}) <= 1

\* C15: the open rentals of a book never outnumber its copies.
C15_NoOverRenting ==
    \A b \in DOMAIN books : Available(books, rentals, b) >= 0

\* C16: a return_book for a rental of another user is answered 404 and
\* changes no rental, and a rental is closed only by a return_book of the
\* user who created it.
C16_OnlyCreatorCloses ==
    /\ [][\A u \in Users, id \in RentalIds :
            (/\ Asked("return_book", u)
             /\ id \in DOMAIN rentals /\ rentals[id].user # u
             /\ ReturnBook(u, id)) =>
                resp' = NotFound("return_book", u) /\ rentals' = rentals
       ]_vars
    /\ [][\A id \in DOMAIN rentals :
            (~rentals[id].returned /\ id \in DOMAIN rentals' /\ rentals'[id].returned)
                => resp'.op = "return_book" /\ resp'.user = rentals[id].user
       ]_vars

\* return_book has just been refused to a user when every rental a request
\* can name was an open rental of the other user.
C16_Witness ==
    /\ resp.op = "return_book" /\ resp.code = 404
    /\ \A id \in RentalIds :
          /\ id \in DOMAIN rentals
          /\ rentals[id].user # resp.user
          /\ ~rentals[id].returned

\* C17: an average in a response is a number, never null, and is 0.0 when it
\* is taken over no ratings or grades: a movie's average_rating, a student's
\* course average, a course's average, and each average_score of the course
\* list.
C17_EmptyAverageIsZero ==
    /\ [](resp.code = 200 /\ resp.op = "list_courses" =>
             \A c \in DOMAIN resp.body :
                 /\ resp.body[c] # Null
                 /\ {g \in grades : g.course = c} = {} => resp.body[c] = Zero)
    /\ [](resp.code = 200 /\ resp.op \in {"get_movie", "get_student_course_average",
                                          "get_course_average"} =>
             resp.body # Null)
    /\ [][\A u \in Users, m \in ResourceIds :
            (/\ Asked("get_movie", u) /\ resp'.code = 200
             /\ {r \in ratings : r.movie = m} = {}
             /\ GetMovie(u, m)) => resp'.body = Zero]_vars
    /\ [][\A u \in Users, s \in StudentIds, c \in CourseIds :
            (/\ Asked("get_student_course_average", u) /\ resp'.code = 200
             /\ {g \in grades : g.student = s /\ g.course = c} = {}
             /\ GetStudentCourseAverage(u, s, c)) => resp'.body = Zero]_vars
    /\ [][\A u \in Users, c \in CourseIds :
            (/\ Asked("get_course_average", u) /\ resp'.code = 200
             /\ {g \in grades : g.course = c} = {}
             /\ GetCourseAverage(u, c)) => resp'.body = Zero]_vars

\* C20: no (student, course) pair has two enrollments, and an enroll_student
\* for a pair that is enrolled, whether its SELECT or its INSERT finds that
\* out, is answered 409 and adds no enrollment.
C20_DuplicateEnrollmentRejected ==
    /\ [](\A s \in StudentIds, c \in CourseIds :
             Cardinality({e \in enrollments : e.student = s /\ e.course = c}) <= 1)
    /\ [][\A w \in EnrollWorkers, u \in Users, s \in StudentIds, c \in CourseIds :
            (/\ \E e \in enrollments : e.student = s /\ e.course = c
             /\ EnrollStart(w, u, s, c)) =>
                /\ resp'.op = "enroll_student" /\ resp'.user = u /\ resp'.code = 409
                /\ enrollments' = enrollments
                /\ enrolling'[w].pc = "idle"
       ]_vars
    /\ [][\A w \in EnrollWorkers :
            (/\ \E e \in enrollments :
                   e.student = enrolling[w].student /\ e.course = enrolling[w].course
             /\ EnrollCreate(w)) =>
                /\ resp'.op = "enroll_student" /\ resp'.code = 409
                /\ enrollments' = enrollments
       ]_vars

\* An enroll_student whose INSERT met the row of a concurrent one has just
\* been answered 409.
C20_Witness ==
    /\ resp.op = "enroll_student" /\ resp.code = 409
    /\ resp.detail = "already enrolled after conflict"
    /\ enrollments # {}

\* C21: a rent_book by a user who holds an open rental of the book is answered
\* with a client error (4xx) and creates no rental.
C21_DuplicateRentalIsClientError ==
    [][\A w \in RentWorkers, u \in Users, b \in BookIds :
        (/\ \E id \in OpenRentals(rentals, b) : rentals[id].user = u
         /\ RentBegin(w, u, b)) =>
            /\ resp'.op = "rent_book" /\ resp'.user = u
            /\ resp'.code >= 400 /\ resp'.code <= 499
            /\ rentals' = rentals
            /\ renting'[w].pc = "idle"
    ]_vars

C22_RejectedAddChangesNothing ==
    [][\A u \in Users, pid \in ProductIds :
        (/\ Asked("add_to_cart", u)
         /\ pid <= Len(products) /\ products[pid].is_active
         /\ AddToCart(u, pid, 0)) =>
            /\ resp'.code = 400
            /\ UNCHANGED <<carts, cartItems, nextItemId, products, orders>>
    ]_vars

\* C23: an update_order_status with a status outside the four statuses is
\* answered, for staff and for other users alike, with the validation error
\* 400, and no order changes.
C23_InvalidStatusIsValidationError ==
    [][\A u \in Users, id \in 1..MaxStatusOrders :
        (Asked("update_order_status", u) /\ UpdateOrderStatus(u, id, Bogus)) =>
            /\ resp'.code = 400
            /\ orders' = orders
    ]_vars

\* The units of product p in the lines of the committed orders ords.
Sold(ords, p) ==
    SumQuantity(UNION {{[order |-> k, line |-> j,
                         quantity |-> ords[k].items[j].quantity] :
                            j \in {i \in 1..Len(ords[k].items) :
                                      ords[k].items[i].product = p}} :
                       k \in 1..Len(ords)})

\* C26: under every interleaving of add_to_cart, remove_from_cart and
\* create_order, no step changes the sum of a product's stock and the units of
\* it in the committed order lines, so that the sum stays the stock the product
\* was created with; and the stock never drops below 0.
C26_StockConservation ==
    [][\A p \in 1..Len(products) :
        /\ products'[p].stock + Sold(orders', p) = products[p].stock + Sold(orders, p)
        /\ products'[p].stock >= 0
    ]_vars

\* C27: when u's checkout commits, every cart line it removes from the cart,
\* a line added or increased by add_to_cart since the checkout read the cart
\* included, is in the lines of the created order with its product and its
\* whole quantity.
C27_CheckoutDropsNothingUnordered ==
    [][\A u \in Users :
        (txn[u].pc = "commit" /\ Returns(u)) =>
            \A ci \in cartItems \ cartItems' :
                \E k \in 1..Len(orders'[Len(orders')].items) :
                    /\ orders'[Len(orders')].items[k].product = ci.product
                    /\ orders'[Len(orders')].items[k].quantity = ci.quantity
    ]_vars

\* The movie ids of a list_movies response.
Listed(body) == {body[k].id : k \in 1..Len(body)}

\* C30: list_movies with min_rating = m returns exactly the movies, among
\* those the genre filter keeps, whose average_rating as the response reports
\* it is >= m; a movie without ratings, reported with 0.0, is returned for
\* m <= 0.
C30_MinRatingAgreesWithReported ==
    [][\A u \in Users, g \in GenreFilters, m \in 0..MaxRatingValue :
        (Asked("list_movies", u) /\ ListMovies(u, g, <<m, 1>>)) =>
            Listed(resp'.body) =
                {id \in DOMAIN movies :
                    /\ g = 0 \/ g \in movies[id].genres
                    /\ AverageRating(id)[1] >= m * AverageRating(id)[2]}
    ]_vars

\* The rows of a list_tasks response stand in the order of sort_by.
BodyOrderedBy(body, sort_by) ==
    \A i, j \in 1..Len(body) :
        LET a == body[i][SortField(sort_by)]
            b == body[j][SortField(sort_by)] IN
        (i < j /\ a # NoDate /\ b # NoDate) =>
            IF Descending(sort_by) THEN a >= b ELSE a <= b

\* C24: list_tasks returns only tasks of the requester, and for each sort_by
\* of created_at, due_date, -created_at and -due_date the returned sequence is
\* in the order of that field, ascending, or descending with the '-'.
C24_TaskListSorted ==
    [][\A u \in Users, st \in StatusFilters, sort_by \in SortOrders :
        (Asked("list_tasks", u) /\ ListTasks(u, st, sort_by)) =>
            /\ resp'.code = 200
            /\ \A k \in 1..Len(resp'.body) :
                  /\ resp'.body[k].id \in DOMAIN tasks
                  /\ tasks[resp'.body[k].id].user = u
            /\ BodyOrderedBy(resp'.body, sort_by)
    ]_vars

\* The AlertLog rows this step creates.
NewAlerts == SubSeq(alertLogs', Len(alertLogs) + 1, Len(alertLogs'))

\* The rules of the server whose metric the payload carries with a value that
\* exceeds the threshold.
Exceeded(server, payload) ==
    {r \in RulesOf(server) :
        /\ MetricValue(payload, r.metric_name) # NoValue
        /\ MetricValue(payload, r.metric_name) > r.threshold}

\* C25: a submit_metrics call for an active server stores exactly one Metric
\* and creates exactly these AlertLog rows, all of that server: one
\* 'Server is DOWN' row if and only if the status is false, and one row per
\* rule of the server if and only if the payload carries the rule's metric
\* with a value that exceeds the threshold; rules of other servers give no row.
C25_AlertsExactlyWhenExceeded ==
    [][\A ip \in Texts, payload \in MetricIns :
        (/\ resp'.op = "submit_metrics" /\ resp'.code = 201
         /\ SubmitMetrics(ip, payload)) =>
            LET server == CHOOSE id \in ActiveServers(ip) : TRUE
                expected ==
                    (IF payload.status THEN {} ELSE {ServerIsDown}) \cup
                    {ExceededThreshold(r, MetricValue(payload, r.metric_name)) :
                        r \in Exceeded(server, payload)} IN
            /\ Len(metrics') = Len(metrics) + 1
            /\ metrics'[Len(metrics')].server = server
            /\ Len(NewAlerts) = Cardinality(expected)
            /\ {NewAlerts[k].message : k \in 1..Len(NewAlerts)} = expected
            /\ \A k \in 1..Len(NewAlerts) : NewAlerts[k].server = server
    ]_vars

\* The stored records of the domain modules.
Stored == <<shopVars, ownedVars, serviceVars>>

\* C28: a step that creates, updates or deletes a stored record of a domain
\* module answers a request of a user the gate has resolved from a valid
\* token; a request without one changes no stored state.
C28_NoUnauthenticatedWrites ==
    [][Stored' # Stored => resp'.user \in users /\ TokensOf(resp'.user) # {}]_vars
====
